---- MODULE Spec2Model ----
(***************************************************************************)
(* Model of jahkeup/health-stats-repro.                                    *)
(*                                                                         *)
(* Two state machines share this module:                                   *)
(*   Spec      the statistics fan-in collector, in its two variants:       *)
(*             "log"   logStatsForContainers  (part_000, lines 140-186)    *)
(*             "stats" statsForContainers     (main.go,  lines 116-170)    *)
(*   MainSpec  main and stopAndCheckContainer of part_000, in the two      *)
(*             variants the file holds (lines 54-138 and lines 284-384).   *)
(* The variables of the machine a specification does not run keep their    *)
(* initial values.                                                         *)
(***************************************************************************)
EXTENDS Integers, Sequences, FiniteSets, TLC

\* ------------------------------------------------------------------ bounds
\* Values (snapshots and nils) the streams of all containers deliver in a run.
MaxSnap == 3
\* Subscriptions (client.Stats calls) the forwarding tasks of statsForContainers
\* open in a run, all containers together.
MaxSubs == 2
\* The events the daemon sends to the listener of main.go.
MaxEvents == 2

\* ------------------------------------------------------- program constants
\* main hands the collector cont1.ID and cont2.ID.
NumContainers == 2

Containers == 1..NumContainers
Gens == 1..MaxSubs

\* A *docker.Stats value: the n-th value the streams of container c produced.
\* Nil is the nil pointer (and the content of a variable that holds nothing).
Nil == [c |-> 0, n |-> 0]
Snapshot(c, n) == [c |-> c, n |-> n]

VARIABLES
    variant,     \* which collector runs: "log" or "stats"
    cancelled,   \* ctx.Done() is closed
    sub,         \* sub[c][g]: the goroutine running the g-th client.Stats call of c
    offer,       \* offer[c][g]: the value that call is blocked sending on its channel
    produced,    \* produced[c]: values the streams of c have produced so far
    fpc,         \* fpc[c]: position of the forwarding task of c
    fval,        \* fval[c]: the stat the forwarding task of c holds
    cur,         \* cur[c]: the subscription whose channel contStats currently is
    tok,         \* tok[c]: tokens buffered in subscribeAgain (capacity 1)
    mpc,         \* position of the merge loop
    mval,        \* the stat the merge loop holds
    sink,        \* the records written to out, in order
    recvLog,     \* history: recvLog[c], the values the forwarding task of c received
    closedNil,   \* history: closedNil[c], the task of c read nil off a closed channel
    streamLog,   \* history: streamLog[c], "no longer streaming" lines logged for c
    atCancel,    \* history (logStatsForContainers): atCancel[c], what cancel()
                 \* found: how many values the task of c had received and
                 \* whether the stream of c had closed
    lateSteps,   \* history: steps the merge loop took after cancel()
    lateRecv     \* history: stats the merge loop received after cancel()

VARIABLES
    prog,        \* which main runs: "A" (part_000 line 54) or "B" (part_000 line 284)
    pc,          \* position of main
    idx,         \* the container main is verifying (1: cont1, 2: cont2)
    cpc,         \* position inside stopAndCheckContainer ("idle": not in it)
    cerr,        \* the variable err of stopAndCheckContainer
    result,      \* result[c]: what stopAndCheckContainer returned to the
                 \* verification of c after the observation window
    success,     \* the variable success of main A
    affected,    \* the slice affected of main B
    window,      \* time.Sleep(runDuration) has returned
    ctxDone,     \* main A has called cancel()
    exited,      \* the process has exited
    exitCode,    \* its exit code
    hung,        \* the process is blocked in a daemon call that never returns
    calls,       \* history: the lifecycle calls issued, with their outcomes
    printed,     \* the container ids printed as "# docker inspect <id>"
    failedAt     \* history: the setup call that returned an error ("none": none)

VARIABLES
    deferred,    \* main of main.go: the deferred calls, the last deferred first
    started,     \* main of main.go: the containers StartContainer has started
    epc,         \* main of main.go: position of the logEvents goroutine
    events       \* main of main.go: events logEvents has written

gvars == <<deferred, started, epc, events>>

mvars == <<prog, pc, idx, cpc, cerr, result, success, affected, window, ctxDone,
           exited, exitCode, hung, calls, printed, failedAt, gvars>>

cvars == <<variant, cancelled, sub, offer, produced, fpc, fval, cur, tok, mpc,
           mval, sink, recvLog, closedNil, streamLog, atCancel, lateSteps,
           lateRecv>>

vars == <<cvars, mvars>>

\* ---------------------------------------------------------------- helpers
\* The channel of subscription g of container c has been closed: client.Stats
\* closes opts.Stats when it returns.
ChanClosed(c, g) == g \in Gens /\ sub[c][g] \in {"drain", "exit"}

\* A receive from contStats of the forwarding task of c can proceed.
ChanReady(c) == cur[c] \in Gens /\ (sub[c][cur[c]] = "offer" \/ ChanClosed(c, cur[c]))

\* What that receive yields: the value offered, or nil from a closed channel.
ChanValue(c) == IF sub[c][cur[c]] = "offer" THEN offer[c][cur[c]] ELSE Nil

\* Mutants of MergeSkips: the test inverted; the test left out.
MergeSkipsInverted(stat) == stat # Nil
MergeSkipsNever(stat) == FALSE

\* `if stat == nil { continue }` of the merge loop.
MergeSkips(stat) == stat = Nil

\* `if stat == nil { continue }` of the forwarding task of statsForContainers.
FwdSkips(stat) == stat = Nil

\* Mutants of WriteOut: the record written twice; the record put in front.
WriteOutTwice(out, stat) == Append(Append(out, stat), stat)
WriteOutFront(out, stat) == <<stat>> \o out

\* fmt.Fprintf(out, "%#v\n", stat)
WriteOut(out, stat) == Append(out, stat)

\* Mutant of MergeSelecting: the ctx.Done() branch leaves the select, not the
\* loop, which goes on receiving.
MergeSelectingForever == mpc \in {"select", "done"}

\* The merge loop is at its select: `for { select {`.
MergeSelecting == mpc = "select"

\* History counters count only once cancel() has been called.
Tick(n) == IF cancelled THEN n + 1 ELSE n

RECURSIVE SumTo(_, _)
SumTo(f, k) == IF k = 0 THEN 0 ELSE f[k] + SumTo(f, k - 1)
\* The sum of a counter over the containers.
Total(f) == SumTo(f, NumContainers)

\* ------------------------------------------------------------------- Init
CollectorInit ==
    /\ variant \in {"log", "stats"}
    /\ cancelled = FALSE
    \* logStatsForContainers starts one client.Stats per container before the
    \* forwarding task; statsForContainers starts none until a token is taken.
    /\ sub = [c \in Containers |->
                [g \in Gens |-> IF variant = "log" /\ g = 1 THEN "run" ELSE "none"]]
    /\ offer = [c \in Containers |-> [g \in Gens |-> Nil]]
    /\ produced = [c \in Containers |-> 0]
    /\ fpc = [c \in Containers |-> "select"]
    /\ fval = [c \in Containers |-> Nil]
    /\ cur = [c \in Containers |-> IF variant = "log" THEN 1 ELSE 0]
    /\ tok = [c \in Containers |-> IF variant = "stats" THEN 1 ELSE 0]
    /\ mpc = "select"
    /\ mval = Nil
    /\ sink = <<>>
    /\ recvLog = [c \in Containers |-> <<>>]
    /\ closedNil = [c \in Containers |-> FALSE]
    /\ streamLog = [c \in Containers |-> 0]
    /\ atCancel = [c \in Containers |-> [recv |-> 0, closed |-> FALSE]]
    /\ lateSteps = 0
    /\ lateRecv = 0

\* The collector while main is the machine that runs.
CollectorIdle ==
    /\ variant = "none"
    /\ cancelled = FALSE
    /\ sub = [c \in Containers |-> [g \in Gens |-> "none"]]
    /\ offer = [c \in Containers |-> [g \in Gens |-> Nil]]
    /\ produced = [c \in Containers |-> 0]
    /\ fpc = [c \in Containers |-> "select"]
    /\ fval = [c \in Containers |-> Nil]
    /\ cur = [c \in Containers |-> 0]
    /\ tok = [c \in Containers |-> 0]
    /\ mpc = "select"
    /\ mval = Nil
    /\ sink = <<>>
    /\ recvLog = [c \in Containers |-> <<>>]
    /\ closedNil = [c \in Containers |-> FALSE]
    /\ streamLog = [c \in Containers |-> 0]
    /\ atCancel = [c \in Containers |-> [recv |-> 0, closed |-> FALSE]]
    /\ lateSteps = 0
    /\ lateRecv = 0

\* main while the collector is the machine that runs.
MainIdle ==
    /\ prog = "none"
    /\ pc = "idle"
    /\ idx = 1
    /\ cpc = "idle"
    /\ cerr = "nil"
    /\ result = [c \in Containers |-> "none"]
    /\ success = TRUE
    /\ affected = <<>>
    /\ window = FALSE
    /\ ctxDone = FALSE
    /\ exited = FALSE
    /\ exitCode = 0
    /\ hung = FALSE
    /\ calls = <<>>
    /\ printed = <<>>
    /\ failedAt = "none"
    /\ deferred = <<>>
    /\ started = {}
    /\ epc = "off"
    /\ events = 0

Init == CollectorInit /\ MainIdle

\* ------------------------------------------------ the external stream source
\* client.Stats decodes one more value off the stream and blocks sending it on
\* opts.Stats. The value is a fresh snapshot or (a spurious wakeup) nil.
SrcOffer(c, g) ==
    /\ sub[c][g] = "run"
    /\ Total(produced) < MaxSnap
    /\ \E v \in {Nil, Snapshot(c, produced[c] + 1)} :
         offer' = [offer EXCEPT ![c][g] = v]
    /\ sub' = [sub EXCEPT ![c][g] = "offer"]
    /\ produced' = [produced EXCEPT ![c] = @ + 1]
    /\ UNCHANGED <<variant, cancelled, fpc, fval, cur, tok, mpc, mval, sink,
                   recvLog, closedNil, streamLog, lateSteps, lateRecv, atCancel, mvars>>

\* client.Stats returns (the stream ended, or the context was cancelled) and
\* closes opts.Stats. In logStatsForContainers the goroutine is over; in
\* statsForContainers it goes on to `<-subscribeAgain`.
SrcEnd(c, g) ==
    /\ sub[c][g] = "run"
    /\ sub' = [sub EXCEPT ![c][g] = IF variant = "stats" THEN "drain" ELSE "exit"]
    /\ UNCHANGED <<variant, cancelled, offer, produced, fpc, fval, cur, tok, mpc,
                   mval, sink, recvLog, closedNil, streamLog, lateSteps, lateRecv,
                   atCancel, mvars>>

\* `<-subscribeAgain` of a finished subscription goroutine of statsForContainers.
SubDrain(c, g) ==
    /\ variant = "stats"
    /\ sub[c][g] = "drain"
    /\ tok[c] = 1
    /\ tok' = [tok EXCEPT ![c] = 0]
    /\ sub' = [sub EXCEPT ![c][g] = "exit"]
    /\ UNCHANGED <<variant, cancelled, offer, produced, fpc, fval, cur, mpc, mval,
                   sink, recvLog, closedNil, streamLog, lateSteps,
                   lateRecv, atCancel, mvars>>

\* cancel() of main.
Cancel ==
    /\ ~cancelled
    /\ cancelled' = TRUE
    /\ atCancel' = IF variant = "log"
                   THEN [c \in Containers |->
                           [recv |-> Len(recvLog[c]), closed |-> ChanClosed(c, cur[c])]]
                   ELSE atCancel
    /\ UNCHANGED <<variant, sub, offer, produced, fpc, fval, cur, tok, mpc, mval,
                   sink, recvLog, closedNil, streamLog, lateSteps, lateRecv, mvars>>

\* ------------------------------- forwarding task of logStatsForContainers
\* `case <-ctx.Done(): return` (the same in both collectors).
FwdDone(c) ==
    /\ fpc[c] = "select"
    /\ cancelled
    /\ fpc' = [fpc EXCEPT ![c] = "done"]
    /\ UNCHANGED <<variant, cancelled, sub, offer, produced, fval, cur, tok, mpc,
                   mval, sink, recvLog, closedNil, streamLog, lateSteps, lateRecv,
                   atCancel, mvars>>

\* Mutant of LogFwdRecv: the task receives its next value without waiting
\* for the hand-over of the previous one.
LogFwdRecvEager(c) ==
    /\ variant = "log"
    /\ fpc[c] \in {"select", "send"}
    /\ ChanReady(c) /\ ~ChanClosed(c, cur[c])
    /\ fval' = [fval EXCEPT ![c] = ChanValue(c)]
    /\ recvLog' = [recvLog EXCEPT ![c] = Append(@, ChanValue(c))]
    /\ sub' = [sub EXCEPT ![c][cur[c]] = "run"]
    /\ offer' = [offer EXCEPT ![c][cur[c]] = Nil]
    /\ fpc' = [fpc EXCEPT ![c] = "send"]
    /\ UNCHANGED <<variant, cancelled, produced, cur, tok, mpc, mval, sink,
                   closedNil, streamLog, lateSteps, lateRecv, atCancel, mvars>>

\* `case stat, ok := <-contStats` with ok: log and go on to `statsChan <- stat`.
LogFwdRecv(c) ==
    /\ variant = "log"
    /\ fpc[c] = "select"
    /\ ChanReady(c) /\ ~ChanClosed(c, cur[c])
    /\ fval' = [fval EXCEPT ![c] = ChanValue(c)]
    /\ recvLog' = [recvLog EXCEPT ![c] = Append(@, ChanValue(c))]
    /\ sub' = [sub EXCEPT ![c][cur[c]] = "run"]
    /\ offer' = [offer EXCEPT ![c][cur[c]] = Nil]
    /\ fpc' = [fpc EXCEPT ![c] = "send"]
    /\ UNCHANGED <<variant, cancelled, produced, cur, tok, mpc, mval, sink,
                   closedNil, streamLog, lateSteps, lateRecv, atCancel, mvars>>

\* Mutant of LogFwdClosed: the task logs the end of the stream and goes on.
LogFwdClosedGoesOn(c) ==
    /\ variant = "log"
    /\ fpc[c] = "select"
    /\ ChanClosed(c, cur[c])
    /\ streamLog[c] < 2
    /\ streamLog' = [streamLog EXCEPT ![c] = @ + 1]
    /\ UNCHANGED <<variant, cancelled, sub, offer, produced, fpc, fval, cur, tok,
                   mpc, mval, sink, recvLog, closedNil, lateSteps, lateRecv,
                   atCancel, mvars>>

\* Mutant of LogFwdClosed: the end of one stream ends the whole collection.
LogFwdClosedStopsAll(c) ==
    /\ variant = "log"
    /\ fpc[c] = "select"
    /\ ChanClosed(c, cur[c])
    /\ streamLog' = [streamLog EXCEPT ![c] = @ + 1]
    /\ fpc' = [d \in Containers |-> IF fpc[d] = "select" THEN "done" ELSE fpc[d]]
    /\ mpc' = IF mpc = "select" THEN "done" ELSE mpc
    /\ UNCHANGED <<variant, cancelled, sub, offer, produced, fval, cur, tok, mval,
                   sink, recvLog, closedNil, lateSteps, lateRecv, atCancel, mvars>>

\* `case stat, ok := <-contStats` with !ok: log "no longer streaming", return.
LogFwdClosed(c) ==
    /\ variant = "log"
    /\ fpc[c] = "select"
    /\ ChanClosed(c, cur[c])
    /\ streamLog' = [streamLog EXCEPT ![c] = @ + 1]
    /\ fpc' = [fpc EXCEPT ![c] = "done"]
    /\ UNCHANGED <<variant, cancelled, sub, offer, produced, fval, cur, tok, mpc,
                   mval, sink, recvLog, closedNil, lateSteps, lateRecv, atCancel, mvars>>

\* ---------------------------------- forwarding task of statsForContainers
\* Where `case stat := <-contStats` leaves the task: nil is skipped.
StatsFwdNext(stat) == IF FwdSkips(stat) THEN "select" ELSE "send"

\* `case stat := <-contStats`: a value of the current subscription, or nil off
\* its closed channel.
StatsFwdRecv(c) ==
    /\ variant = "stats"
    /\ fpc[c] = "select"
    /\ ChanReady(c)
    /\ LET v == ChanValue(c)
           live == sub[c][cur[c]] = "offer"
       IN /\ fpc' = [fpc EXCEPT ![c] = StatsFwdNext(v)]
          /\ fval' = [fval EXCEPT ![c] = IF StatsFwdNext(v) = "send" THEN v ELSE Nil]
          /\ recvLog' = [recvLog EXCEPT ![c] = IF live THEN Append(@, v) ELSE @]
          /\ closedNil' = [closedNil EXCEPT ![c] = @ \/ ~live]
          /\ sub' = [sub EXCEPT ![c][cur[c]] = IF live THEN "run" ELSE @]
          /\ offer' = [offer EXCEPT ![c][cur[c]] = Nil]
    /\ UNCHANGED <<variant, cancelled, produced, cur, tok, mpc, mval, sink,
                   streamLog, lateSteps, lateRecv, atCancel, mvars>>

\* `subscribeAgain <- true` after the send on statsChan: blocks while the
\* channel (capacity 1) is full.
StatsFwdToken(c) ==
    /\ variant = "stats"
    /\ fpc[c] = "token"
    /\ tok[c] = 0
    /\ tok' = [tok EXCEPT ![c] = 1]
    /\ fpc' = [fpc EXCEPT ![c] = "select"]
    /\ UNCHANGED <<variant, cancelled, sub, offer, produced, fval, cur, mpc, mval,
                   sink, recvLog, closedNil, streamLog, lateSteps,
                   lateRecv, atCancel, mvars>>

\* `case <-subscribeAgain`: contStats becomes a new channel and a goroutine
\* calls client.Stats on it.
StatsFwdResubscribe(c) ==
    /\ variant = "stats"
    /\ fpc[c] = "select"
    /\ tok[c] = 1
    /\ Total(cur) < MaxSubs
    /\ tok' = [tok EXCEPT ![c] = 0]
    /\ cur' = [cur EXCEPT ![c] = @ + 1]
    /\ sub' = [sub EXCEPT ![c][cur[c] + 1] = "run"]
    /\ UNCHANGED <<variant, cancelled, offer, produced, fpc, fval, mpc, mval, sink,
                   recvLog, closedNil, streamLog, lateSteps, lateRecv, atCancel, mvars>>

\* ------------------------------------------------------------ merge loop
\* Where the forwarding task of c goes once its `statsChan <- stat` completed.
AfterSend == IF variant = "stats" THEN "token" ELSE "select"

\* Where `case stat := <-statsChan` leaves the merge loop.
MergeNext(stat) == IF MergeSkips(stat) THEN "select" ELSE "write"

\* `case stat := <-statsChan`: the rendezvous with the `statsChan <- stat` of
\* the forwarding task of c (statsChan is unbuffered).
MergeRecv(c) ==
    /\ MergeSelecting
    /\ fpc[c] = "send"
    /\ mpc' = MergeNext(fval[c])
    /\ mval' = IF MergeNext(fval[c]) = "write" THEN fval[c] ELSE Nil
    /\ fpc' = [fpc EXCEPT ![c] = AfterSend]
    /\ fval' = [fval EXCEPT ![c] = Nil]
    /\ lateSteps' = Tick(lateSteps)
    /\ lateRecv' = Tick(lateRecv)
    /\ UNCHANGED <<variant, cancelled, sub, offer, produced, cur, tok, sink,
                   recvLog, closedNil, streamLog, atCancel, mvars>>

\* fmt.Fprintf(out, "%#v\n", stat), then back to the select.
MergeWrite ==
    /\ mpc = "write"
    /\ sink' = WriteOut(sink, mval)
    /\ mval' = Nil
    /\ mpc' = "select"
    /\ lateSteps' = Tick(lateSteps)
    /\ UNCHANGED <<variant, cancelled, sub, offer, produced, fpc, fval, cur, tok,
                   recvLog, closedNil, streamLog, lateRecv, atCancel, mvars>>

\* Mutant of MergeDone: `break` for `return`, the loop selects again.
MergeDoneBreaks ==
    /\ MergeSelecting
    /\ cancelled
    /\ mpc' = "select"
    /\ lateSteps' = Tick(lateSteps)
    /\ UNCHANGED <<variant, cancelled, sub, offer, produced, fpc, fval, cur, tok,
                   mval, sink, recvLog, closedNil, streamLog, lateRecv, atCancel, mvars>>

\* `case <-ctx.Done(): return` of the merge loop.
MergeDone ==
    /\ MergeSelecting
    /\ cancelled
    /\ mpc' = "done"
    /\ lateSteps' = Tick(lateSteps)
    /\ UNCHANGED <<variant, cancelled, sub, offer, produced, fpc, fval, cur, tok,
                   mval, sink, recvLog, closedNil, streamLog, lateRecv, atCancel, mvars>>

\* ===================================================== main (part_000)
\* configStopContainer and configRemoveContainer of the second main.
configStopContainer == FALSE
configRemoveContainer == FALSE

\* The calls of main up to the observation window, in order. The first main
\* also opens its log files and registers the event listener.
SetupOrder ==
    IF prog = "A"
    THEN <<"logfiles", "client", "build", "listen", "create1", "create2",
           "start1", "start2">>
    ELSE <<"client", "build", "create1", "create2", "start1", "start2">>

\* The call that follows call p.
SetupAfter(p) ==
    LET k == CHOOSE n \in 1..Len(SetupOrder) : SetupOrder[n] = p
    IN SetupOrder[k + 1]

\* `if err != nil`
Failed(err) == err # "nil"

\* What a daemon call can do. A call given a context with a timeout returns an
\* error when the timeout expires; StopContainer and RemoveContainer are given
\* none and may never return.
StopOutcomes == IF prog = "A" THEN {"ok", "err", "hang"} ELSE {"ok", "err", "timeout"}
InspectOutcomes == {"ok", "err", "timeout"}
\* Mutant of RemoveOutcomes: the remove call is given a timeout as well.
RemoveOutcomesTimed == {"ok", "err", "timeout"}

RemoveOutcomes == {"ok", "err", "hang"}

\* The error a call that returned hands back.
ErrOf(out) == IF out = "ok" THEN "nil" ELSE "err"

MainInit ==
    /\ prog \in {"A", "B"}
    /\ pc = SetupOrder[1]
    /\ idx = 1
    /\ cpc = "idle"
    /\ cerr = "nil"
    /\ result = [c \in Containers |-> "none"]
    /\ success = TRUE
    /\ affected = <<>>
    /\ window = FALSE
    /\ ctxDone = FALSE
    /\ exited = FALSE
    /\ exitCode = 0
    /\ hung = FALSE
    /\ calls = <<>>
    /\ printed = <<>>
    /\ failedAt = "none"
    /\ deferred = <<>>
    /\ started = {}
    /\ epc = "off"
    /\ events = 0

Running == ~exited /\ ~hung

\* Mutant of Exit: the process always reports success.
ExitZero(code) ==
    /\ exited' = TRUE
    /\ exitCode' = 0
    /\ pc' = "exit"

\* os.Exit(code)
Exit(code) ==
    /\ exited' = TRUE
    /\ exitCode' = code
    /\ pc' = "exit"

\* logFiles, docker.NewClientFromEnv, BuildImage, AddEventListener,
\* createContainer (twice), StartContainer of cont1: each followed by
\* failOnError(err).
SetupCall ==
    /\ Running
    /\ \E n \in 1..(Len(SetupOrder) - 1) : pc = SetupOrder[n]
    /\ \E out \in {"ok", "err"} :
         IF Failed(ErrOf(out))
         THEN /\ Exit(1)
              /\ failedAt' = pc
         ELSE /\ pc' = SetupAfter(pc)
              /\ UNCHANGED <<exited, exitCode, failedAt>>
    /\ UNCHANGED <<prog, idx, cpc, cerr, result, success, affected, window,
                   ctxDone, hung, calls, printed, gvars, cvars>>

\* Where stopAndCheckContainer starts: the first main always stops the
\* container, the second kills it only `if configStopContainer`.
FirstCall == IF prog = "A" \/ configStopContainer THEN "stop" ELSE "inspect"

\* StartContainer of cont2: on an error main runs stopAndCheckContainer on
\* cont1 before failOnError(err).
StartSecond ==
    /\ Running
    /\ pc = "start2"
    /\ \E out \in {"ok", "err"} :
         IF Failed(ErrOf(out))
         THEN /\ pc' = "start2fail"
              /\ idx' = 1
              /\ cpc' = FirstCall
              /\ failedAt' = pc
         ELSE /\ pc' = "sleep"
              /\ UNCHANGED <<idx, cpc, failedAt>>
    /\ UNCHANGED <<prog, cerr, result, success, affected, window, ctxDone,
                   exited, exitCode, hung, calls, printed, gvars, cvars>>

\* failOnError(err) after that stopAndCheckContainer has returned.
FailAfterStop ==
    /\ Running
    /\ pc = "start2fail"
    /\ cpc = "ret"
    /\ Exit(1)
    /\ cpc' = "idle"
    /\ UNCHANGED <<prog, idx, cerr, result, success, affected, window, ctxDone,
                   hung, calls, printed, failedAt, gvars, cvars>>

\* time.Sleep(runDuration)
Sleep ==
    /\ Running
    /\ pc = "sleep"
    /\ window' = TRUE
    /\ pc' = IF prog = "A" THEN "cancel" ELSE "check"
    /\ UNCHANGED <<prog, idx, cpc, cerr, result, success, affected, ctxDone,
                   exited, exitCode, hung, calls, printed, failedAt, gvars, cvars>>

\* cancel() of the first main.
CancelCtx ==
    /\ Running
    /\ pc = "cancel"
    /\ ctxDone' = TRUE
    /\ pc' = "check"
    /\ UNCHANGED <<prog, idx, cpc, cerr, result, success, affected, window,
                   exited, exitCode, hung, calls, printed, failedAt, gvars, cvars>>

\* err = stopAndCheckContainer(cl, cont): the call.
CheckCall ==
    /\ Running
    /\ pc = "check"
    /\ cpc = "idle"
    /\ cpc' = FirstCall
    /\ UNCHANGED <<prog, pc, idx, cerr, result, success, affected, window,
                   ctxDone, exited, exitCode, hung, calls, printed, failedAt, gvars, cvars>>

\* Mutant of Success: the flag assigned from the last check alone.
SuccessLast(prev, err) == ~Failed(err)

\* `if err != nil { success = false }` of the first main.
Success(prev, err) == IF Failed(err) THEN FALSE ELSE prev

\* Mutant of Affected: every checked container is appended.
AffectedAll(list, c, err) == Append(list, c)

\* `if err != nil { affected = append(affected, cont) }` of the second main.
Affected(list, c, err) == IF Failed(err) THEN Append(list, c) ELSE list

\* Mutant of AfterCheck: the verification stops at the first failure.
AfterCheckFailFast(i, err) ==
    IF Failed(err) \/ i >= NumContainers THEN "verdict" ELSE "check"

\* What follows the check of container i: the check of the next container,
\* whatever err is, and the verdict after the last.
AfterCheck(i, err) == IF i < NumContainers THEN "check" ELSE "verdict"

\* err = stopAndCheckContainer(cl, cont): the return, and what main does with
\* err.
CheckReturn ==
    /\ Running
    /\ pc = "check"
    /\ cpc = "ret"
    /\ result' = [result EXCEPT ![idx] = cerr]
    /\ success' = IF prog = "A" THEN Success(success, cerr) ELSE success
    /\ affected' = IF prog = "B" THEN Affected(affected, idx, cerr) ELSE affected
    /\ pc' = AfterCheck(idx, cerr)
    /\ idx' = IF AfterCheck(idx, cerr) = "check" THEN idx + 1 ELSE idx
    /\ cpc' = "idle"
    /\ cerr' = "nil"
    /\ UNCHANGED <<prog, window, ctxDone, exited, exitCode, hung, calls, printed,
                   failedAt, gvars, cvars>>

\* The process succeeded: `if !success` of the first main,
\* `if len(affected) != 0` of the second.
Passed == IF prog = "A" THEN success ELSE Len(affected) = 0

\* The end of main: os.Exit(2), after the second main printed one
\* "# docker inspect <id>" per affected container, or the return from main.
Verdict ==
    /\ Running
    /\ pc = "verdict"
    /\ printed' = IF prog = "B" /\ ~Passed THEN affected ELSE printed
    /\ Exit(IF Passed THEN 0 ELSE 2)
    /\ UNCHANGED <<prog, idx, cpc, cerr, result, success, affected, window,
                   ctxDone, hung, calls, failedAt, gvars, cvars>>

\* ------------------------------------------------- stopAndCheckContainer
Call(op, out) == [op |-> op, c |-> idx, out |-> out]

\* client.StopContainer(cont.ID, callTimeoutSecs) of the first main, whose
\* error is logged and then overwritten by the inspect call;
\* client.KillContainer of the second, whose error is local to the `if`.
StopCall ==
    /\ Running
    /\ cpc = "stop"
    /\ \E out \in StopOutcomes :
         /\ calls' = Append(calls, Call("stop", out))
         /\ hung' = (out = "hang")
         /\ cpc' = IF out = "hang" THEN cpc ELSE "inspect"
         /\ cerr' = IF prog = "A" /\ out # "hang" THEN ErrOf(out) ELSE cerr
    /\ UNCHANGED <<prog, pc, idx, result, success, affected, window, ctxDone,
                   exited, exitCode, printed, failedAt, gvars, cvars>>

\* Mutant of AfterInspect: stopAndCheckContainer returns after the inspect.
AfterInspectNoRemove(err) == "ret"

\* Mutant of AfterInspect: the error of the inspect call is only logged.
AfterInspectIgnoresErr(err) ==
    IF prog = "A" \/ configRemoveContainer THEN "remove" ELSE "ret"

\* After InspectContainerWithContext: `if err != nil { return err }`, then the
\* remove call (in the second main only `if configRemoveContainer`).
AfterInspect(err) ==
    IF Failed(err) THEN "ret"
    ELSE IF prog = "A" \/ configRemoveContainer THEN "remove" ELSE "ret"

\* insp, err := client.InspectContainerWithContext(cont.ID, ctx)
InspectCall ==
    /\ Running
    /\ cpc = "inspect"
    /\ \E out \in InspectOutcomes :
         /\ calls' = Append(calls, Call("inspect", out))
         /\ cerr' = ErrOf(out)
         /\ cpc' = AfterInspect(ErrOf(out))
    /\ UNCHANGED <<prog, pc, idx, result, success, affected, window, ctxDone,
                   exited, exitCode, hung, printed, failedAt, gvars, cvars>>

\* err = client.RemoveContainer(...); return err
RemoveCall ==
    /\ Running
    /\ cpc = "remove"
    /\ \E out \in RemoveOutcomes :
         /\ calls' = Append(calls, Call("remove", out))
         /\ hung' = (out = "hang")
         /\ cpc' = IF out = "hang" THEN cpc ELSE "ret"
         /\ cerr' = IF out = "hang" THEN cerr ELSE ErrOf(out)
    /\ UNCHANGED <<prog, pc, idx, result, success, affected, window, ctxDone,
                   exited, exitCode, printed, failedAt, gvars, cvars>>

MainNext ==
    \/ SetupCall
    \/ StartSecond
    \/ FailAfterStop
    \/ Sleep
    \/ CancelCtx
    \/ CheckCall
    \/ CheckReturn
    \/ Verdict
    \/ StopCall
    \/ InspectCall
    \/ RemoveCall

MainSpecInit == CollectorIdle /\ MainInit

MainSpec == MainSpecInit /\ [][MainNext]_vars

\* ======================================================== main (main.go)
\* The steps of main of main.go in program order: the calls followed by
\* failOnError, the defer statements, the go statements, the sleep and the
\* return.
GoOrder ==
    <<"statsout", "eventsout", "client", "build", "deferRemoveImage",
      "deferCancel", "listen", "goLogEvents", "create1", "create2", "start1",
      "deferStop1", "start2", "deferStop2", "sleep", "return">>

\* The step that follows step p.
GoAfter(p) ==
    LET k == CHOOSE n \in 1..Len(GoOrder) : GoOrder[n] = p
    IN GoOrder[k + 1]

\* The calls whose error goes to failOnError.
GoFailable ==
    {"statsout", "eventsout", "client", "build", "listen", "create1", "create2",
     "start1", "start2"}

\* The call each defer statement defers.
GoDeferredCall(p) ==
    CASE p = "deferRemoveImage" -> [op |-> "removeImage", c |-> 0]
      [] p = "deferCancel" -> [op |-> "cancel", c |-> 0]
      [] p = "deferStop1" -> [op |-> "stop", c |-> 1]
      [] p = "deferStop2" -> [op |-> "stop", c |-> 2]

\* The container a successful StartContainer has started.
GoStarted(p) ==
    IF p = "start1" THEN {1} ELSE IF p = "start2" THEN {2} ELSE {}

\* What a deferred call can do: cancel() returns; RemoveImage and
\* StopContainer(id, 0) are daemon calls without a context.
GoDeferredOutcomes(d) ==
    IF d.op = "cancel" THEN {"ok"} ELSE {"ok", "err", "hang"}

GoMainInit ==
    /\ prog = "G"
    /\ pc = GoOrder[1]
    /\ idx = 1
    /\ cpc = "idle"
    /\ cerr = "nil"
    /\ result = [c \in Containers |-> "none"]
    /\ success = TRUE
    /\ affected = <<>>
    /\ window = FALSE
    /\ ctxDone = FALSE
    /\ exited = FALSE
    /\ exitCode = 0
    /\ hung = FALSE
    /\ calls = <<>>
    /\ printed = <<>>
    /\ failedAt = "none"
    /\ deferred = <<>>
    /\ started = {}
    /\ epc = "off"
    /\ events = 0

\* os.OpenFile (twice), docker.NewClientFromEnv, BuildImage,
\* AddEventListener, createContainer (twice), StartContainer (twice): each
\* followed by failOnError(err), which on an error logs and calls
\* os.Exit(1); the deferred calls are not run.
GoCall ==
    /\ Running
    /\ pc \in GoFailable
    /\ \E out \in {"ok", "err"} :
         IF Failed(ErrOf(out))
         THEN /\ Exit(1)
              /\ failedAt' = pc
              /\ UNCHANGED started
         ELSE /\ pc' = GoAfter(pc)
              /\ started' = started \cup GoStarted(pc)
              /\ UNCHANGED <<exited, exitCode, failedAt>>
    /\ UNCHANGED <<prog, idx, cpc, cerr, result, success, affected, window,
                   ctxDone, hung, calls, printed, deferred, epc, events, cvars>>

\* defer cl.RemoveImage(imageName), defer cancel(),
\* defer cl.StopContainer(cont.ID, 0)
GoDefer ==
    /\ Running
    /\ pc \in {"deferRemoveImage", "deferCancel", "deferStop1", "deferStop2"}
    /\ deferred' = <<GoDeferredCall(pc)>> \o deferred
    /\ pc' = GoAfter(pc)
    /\ UNCHANGED <<prog, idx, cpc, cerr, result, success, affected, window,
                   ctxDone, exited, exitCode, hung, calls, printed, failedAt,
                   started, epc, events, cvars>>

\* go logEvents(ctx, eventsout, eventChan)
GoLogEvents ==
    /\ Running
    /\ pc = "goLogEvents"
    /\ epc' = "select"
    /\ pc' = GoAfter(pc)
    /\ UNCHANGED <<prog, idx, cpc, cerr, result, success, affected, window,
                   ctxDone, exited, exitCode, hung, calls, printed, failedAt,
                   deferred, started, events, cvars>>

\* go statsForContainers(...); time.Sleep(10 * time.Second)
GoSleep ==
    /\ Running
    /\ pc = "sleep"
    /\ window' = TRUE
    /\ pc' = GoAfter(pc)
    /\ UNCHANGED <<prog, idx, cpc, cerr, result, success, affected, ctxDone,
                   exited, exitCode, hung, calls, printed, failedAt, gvars, cvars>>

\* The return of main runs one deferred call, the last deferred first.
GoRunDeferred ==
    /\ Running
    /\ pc = "return"
    /\ deferred # <<>>
    /\ LET d == Head(deferred)
       IN \E out \in GoDeferredOutcomes(d) :
            /\ ctxDone' = (ctxDone \/ d.op = "cancel")
            /\ calls' = IF d.op = "cancel" THEN calls
                        ELSE Append(calls, [op |-> d.op, c |-> d.c, out |-> out])
            /\ hung' = (out = "hang")
            /\ deferred' = IF out = "hang" THEN deferred
                           ELSE Tail(deferred)
    /\ UNCHANGED <<prog, pc, idx, cpc, cerr, result, success, affected, window,
                   exited, exitCode, printed, failedAt, started, epc, events,
                   cvars>>

\* main has returned and every deferred call has run: exit code 0.
GoExit ==
    /\ Running
    /\ pc = "return"
    /\ deferred = <<>>
    /\ Exit(0)
    /\ UNCHANGED <<prog, idx, cpc, cerr, result, success, affected, window,
                   ctxDone, hung, calls, printed, failedAt, gvars, cvars>>

\* logEvents: `case event := <-events`, written to the events file.
EventWrite ==
    /\ ~exited
    /\ epc = "select"
    /\ events < MaxEvents
    /\ events' = events + 1
    /\ UNCHANGED <<prog, pc, idx, cpc, cerr, result, success, affected, window,
                   ctxDone, exited, exitCode, hung, calls, printed, failedAt,
                   deferred, started, epc, cvars>>

\* logEvents: `case <-ctx.Done(): return`
EventsDone ==
    /\ ~exited
    /\ epc = "select"
    /\ ctxDone
    /\ epc' = "done"
    /\ UNCHANGED <<prog, pc, idx, cpc, cerr, result, success, affected, window,
                   ctxDone, exited, exitCode, hung, calls, printed, failedAt,
                   deferred, started, events, cvars>>

GoNext ==
    \/ GoCall
    \/ GoDefer
    \/ GoLogEvents
    \/ GoSleep
    \/ GoRunDeferred
    \/ GoExit
    \/ EventWrite
    \/ EventsDone

GoSpecInit == CollectorIdle /\ GoMainInit

GoSpec == GoSpecInit /\ [][GoNext]_vars

\* ------------------------------------------------------------------- Next
Next ==
    \/ Cancel
    \/ MergeDone
    \/ MergeWrite
    \/ \E c \in Containers : MergeRecv(c)
    \/ \E c \in Containers : FwdDone(c)
    \/ \E c \in Containers : LogFwdRecv(c)
    \/ \E c \in Containers : LogFwdClosed(c)
    \/ \E c \in Containers : StatsFwdRecv(c)
    \/ \E c \in Containers : StatsFwdToken(c)
    \/ \E c \in Containers : StatsFwdResubscribe(c)
    \/ \E c \in Containers, g \in Gens : SrcOffer(c, g)
    \/ \E c \in Containers, g \in Gens : SrcEnd(c, g)
    \/ \E c \in Containers, g \in Gens : SubDrain(c, g)

Spec == Init /\ [][Next]_vars

\* ------------------------------------------------- vocabulary of the claims
NonNil(seq) == SelectSeq(seq, LAMBDA v : v # Nil)

\* The records of the sink that belong to container c, in sink order.
SinkOf(c) == SelectSeq(sink, LAMBDA v : v.c = c)

IsPrefix(s, t) == Len(s) <= Len(t) /\ SubSeq(t, 1, Len(s)) = s

\* The snapshot of c the merge loop has received and not yet written.
MergeHeld(c) == IF mpc = "write" /\ mval.c = c THEN <<mval>> ELSE <<>>

\* The snapshot of c its forwarding task has received and not yet handed over.
FwdHeld(c) == IF fpc[c] = "send" /\ fval[c] # Nil THEN <<fval[c]>> ELSE <<>>

\* The values the task of c had received when cancel() was called.
BeforeCancel(c) == SubSeq(recvLog[c], 1, atCancel[c].recv)

Offering(c) == \E g \in Gens : sub[c][g] = "offer"

\* ---------------------------------------------------------------- C1
\* C1 as claimed (refuted): in logStatsForContainers, once the merge loop has
\* returned, every non-nil snapshot a forwarding task had received before
\* cancel() is in the sink, the one it held blocked on `statsChan <- stat` at
\* the moment of cancellation included.
C1_Original ==
    (variant = "log" /\ mpc = "done") =>
        \A c \in Containers : IsPrefix(NonNil(BeforeCancel(c)), SinkOf(c))

\* C1 as amended: in logStatsForContainers every non-nil snapshot a forwarding
\* task received is, in order, in the sink, or held by the merge loop on its
\* way to the sink, or still held by that forwarding task; once the merge loop
\* has returned the only snapshot of a container that is not in the sink is the
\* one its forwarding task still holds (at most one per container), and that
\* one is dropped.
C1_WrittenOrHeld ==
    variant = "log" =>
        \A c \in Containers :
            /\ NonNil(recvLog[c]) = SinkOf(c) \o MergeHeld(c) \o FwdHeld(c)
            /\ mpc = "done" => MergeHeld(c) = <<>>

\* C1 witness: the merge loop returned while a forwarding task holds a snapshot
\* it received before cancel(), and another snapshot of that run was written.
C1_Witness ==
    /\ variant = "log"
    /\ mpc = "done"
    /\ Len(sink) >= 1
    /\ \E c \in Containers :
         /\ fpc[c] = "send"
         /\ fval[c] # Nil
         /\ atCancel[c].recv = Len(recvLog[c])

\* ---------------------------------------------------------------- C2
\* C2 as claimed (refuted): in logStatsForContainers, when the stream of c had
\* closed before cancel(), every non-nil snapshot the task of another container
\* d received before cancel() is in the sink once the merge loop has returned.
C2_Original ==
    (variant = "log" /\ mpc = "done") =>
        \A c, d \in Containers :
            (c # d /\ atCancel[c].closed) =>
                IsPrefix(NonNil(BeforeCancel(d)), SinkOf(d))

\* C2 as amended: in logStatsForContainers, while the stream of c is closed,
\* (a) before cancel() the merge loop has not returned and the task of another
\* container d has returned only if the stream of d closed too, (b) no value of
\* the stream of d is lost: each is offered, received, held or written, and (c)
\* before cancel() the next hand-over of d is enabled: the receive of an offered
\* value, the rendezvous on statsChan, the write. A snapshot of d is dropped
\* only when cancel() fires while it is still in flight.
C2_Isolation ==
    variant = "log" =>
        \A c, d \in Containers :
            (c # d /\ ChanClosed(c, cur[c])) =>
                /\ ~cancelled => mpc # "done"
                /\ (~cancelled /\ fpc[d] = "done") => ChanClosed(d, cur[d])
                /\ Len(recvLog[d]) + (IF Offering(d) THEN 1 ELSE 0) = produced[d]
                /\ NonNil(recvLog[d]) = SinkOf(d) \o MergeHeld(d) \o FwdHeld(d)
                /\ (~cancelled /\ Offering(d) /\ fpc[d] = "select")
                       => ENABLED LogFwdRecv(d)
                /\ (~cancelled /\ fpc[d] = "send" /\ mpc = "select")
                       => ENABLED MergeRecv(d)
                /\ (~cancelled /\ mpc = "write") => ENABLED MergeWrite

\* C2 witness: the stream of one container closed and its task returned before
\* cancel(), and afterwards two snapshots of the other container were written.
C2_Witness ==
    /\ variant = "log"
    /\ ~cancelled
    /\ \E c, d \in Containers :
         /\ c # d
         /\ fpc[c] = "done"
         /\ recvLog[c] = <<>>
         /\ Len(SinkOf(d)) = 2

C4_Original == [][cancelled => sink' = sink]_vars

\* C4 as amended: once the merge loop has taken the ctx.Done() branch it has
\* returned for good, nothing is written to the sink any more, and a stat a
\* forwarding task is offering on statsChan stays offered, never consumed.
\* Between cancel() and that branch the loop may still write the stat it had
\* received and the stats its select picks while both branches are ready.
C4_NoWriteOnceObserved ==
    [][mpc = "done" =>
          /\ mpc' = "done"
          /\ sink' = sink
          /\ \A c \in Containers :
               fpc[c] = "send" => (fpc'[c] = "send" /\ fval'[c] = fval[c])]_vars

\* C4 witness: the merge loop has returned, a forwarding task is still offering
\* a snapshot, and the sink received a record after cancel().
C4_Witness ==
    /\ mpc = "done"
    /\ lateRecv >= 1
    /\ Len(sink) >= 1
    /\ \E c \in Containers : fpc[c] = "send" /\ fval[c] # Nil

\* ---------------------------------------------------------------- C5
\* C5: no record of the sink is nil, in logStatsForContainers and in
\* statsForContainers alike.
C5_NoNilWritten == \A i \in 1..Len(sink) : sink[i] # Nil

\* C5 witness: in logStatsForContainers a live stream delivered nil, the
\* forwarding task handed it to the merge loop, which is back at its select,
\* and a snapshot has been written.
C5_Witness ==
    /\ variant = "log"
    /\ mpc = "select"
    /\ Len(sink) >= 1
    /\ \E c \in Containers :
         /\ fpc[c] = "select"
         /\ \E k \in 1..Len(recvLog[c]) : recvLog[c][k] = Nil

\* ---------------------------------------------------------------- C6
\* C6: every record of the sink is a snapshot the forwarding task of exactly
\* one container received from its stream, no snapshot is in the sink twice,
\* and a container has at most as many records as its task received snapshots.
C6_WrittenOnce ==
    /\ \A i, j \in 1..Len(sink) : i # j => sink[i] # sink[j]
    /\ \A i \in 1..Len(sink) :
         /\ sink[i].c \in Containers
         /\ \A d \in Containers :
              (\E k \in 1..Len(recvLog[d]) : recvLog[d][k] = sink[i]) <=> d = sink[i].c
    /\ \A c \in Containers : Len(SinkOf(c)) <= Len(NonNil(recvLog[c]))

\* C6 witness: three records written, of both containers.
C6_Witness ==
    /\ Len(sink) = 3
    /\ \A c \in Containers : Len(SinkOf(c)) >= 1

\* ---------------------------------------------------------------- C7
\* C7: for every container, two records of the sink that belong to it are in
\* the order in which its forwarding task received them from its stream(s).
C7_PerContainerOrder ==
    \A c \in Containers :
        \A i, j \in 1..Len(SinkOf(c)) :
            i < j =>
                \E ki, kj \in 1..Len(recvLog[c]) :
                    /\ ki < kj
                    /\ recvLog[c][ki] = SinkOf(c)[i]
                    /\ recvLog[c][kj] = SinkOf(c)[j]

\* C7 witness: in statsForContainers a container has two records in the sink,
\* the second received over a second subscription.
C7_Witness ==
    /\ variant = "stats"
    /\ \E c \in Containers : cur[c] = 2 /\ Len(SinkOf(c)) = 2

\* ---------------------------------------------------------------- C8
\* Lifecycle call op on container c returned an error (a timeout included).
Erred(c, op) ==
    \E i \in 1..Len(calls) :
        calls[i].c = c /\ calls[i].op = op /\ calls[i].out \in {"err", "timeout"}

Issued(c, op) == \E i \in 1..Len(calls) : calls[i].c = c /\ calls[i].op = op

\* C8 as claimed (refuted): stopAndCheckContainer returned an error for every
\* container one of whose lifecycle calls (stop or kill, inspect, remove)
\* returned an error.
C8_Original ==
    \A c \in Containers :
        (result[c] # "none" /\ \E op \in {"stop", "inspect", "remove"} : Erred(c, op))
            => result[c] = "err"

\* C8 as amended: stopAndCheckContainer returns an error for a container
\* exactly when its inspect call or its remove call returned an error (an
\* expired timeout included); an error of the stop or kill call is logged and
\* does not by itself make stopAndCheckContainer return an error.
C8_InspectOrRemove ==
    \A c \in Containers :
        result[c] # "none" =>
            (result[c] = "err" <=> (Erred(c, "inspect") \/ Erred(c, "remove")))

\* C8 witness: the inspect call of a container timed out after its stop call
\* had succeeded, and stopAndCheckContainer returned an error for it.
C8_Witness ==
    \E c \in Containers :
        /\ result[c] = "err"
        /\ \E i \in 1..Len(calls) :
             calls[i] = [op |-> "inspect", c |-> c, out |-> "timeout"]
        /\ ~Erred(c, "stop")

\* ---------------------------------------------------------------- C9
\* C9: a process that exits after the observation window exits with 2 exactly
\* when stopAndCheckContainer returned an error for one of the two containers,
\* with 0 exactly when it returned none for both, and never with 1.
C9_ExitCode ==
    (exited /\ window) =>
        /\ exitCode \in {0, 2}
        /\ exitCode = 2 <=> \E c \in Containers : result[c] = "err"
        /\ exitCode = 0 <=> \A c \in Containers : result[c] = "nil"

\* C9 witness: exit code 2 with the first container passing and the second
\* failing.
C9_Witness ==
    /\ exited
    /\ window
    /\ exitCode = 2
    /\ result[1] = "nil"
    /\ result[2] = "err"

\* ---------------------------------------------------------------- C10
\* C10: when stopAndCheckContainer returns for the first container, whatever
\* it returns, main goes on to call it for the second; a result once recorded
\* for a container is not changed by the verification of the other; and a
\* process that exits after the observation window has a result, and an
\* inspect call, for both.
C10_Independent ==
    /\ [][(result[1] = "none" /\ result'[1] # "none")
             => (pc' = "check" /\ idx' = 2 /\ ~exited')]_vars
    /\ [][\A c \in Containers : result[c] # "none" => result'[c] = result[c]]_vars
    /\ []((exited /\ window) =>
             \A c \in Containers : result[c] # "none" /\ Issued(c, "inspect"))

\* C10 witness: the first container failed, the second was verified after it
\* and passed.
C10_Witness ==
    /\ pc = "verdict"
    /\ result[1] = "err"
    /\ result[2] = "nil"
    /\ Issued(2, "inspect")

\* ------------------------------------------------------------------- C11
\* C11 as stated: once a setup call has returned an error the process
\* terminates with exit code 1 without reaching the observation window: it
\* has exited with code 1, or it can still take a step towards that exit.
C11_Original ==
    failedAt # "none" =>
        /\ ~window
        /\ \/ exited /\ exitCode = 1
           \/ ~exited /\ ENABLED MainNext

\* C11, amended: once a setup call has returned an error the process never
\* reaches the observation window, the cancellation, a recorded verification
\* result or the verdict, and an exit is an exit with code 1; it does exit
\* unless the stopAndCheckContainer run on cont1 after the failed start of
\* cont2 is stuck in a stop or remove call that never returns. An exit
\* before the window is always such a setup failure.
C11_SetupErrorIsFatal ==
    /\ failedAt # "none" =>
          /\ ~window /\ ~ctxDone
          /\ \A c \in Containers : result[c] = "none"
          /\ affected = <<>> /\ printed = <<>>
          /\ exited => exitCode = 1
          /\ Running => pc = "start2fail" /\ ENABLED MainNext
          /\ hung => /\ failedAt = "start2"
                     /\ calls # <<>>
                     /\ calls[Len(calls)].c = 1
                     /\ calls[Len(calls)].op \in {"stop", "remove"}
          /\ failedAt # "start2" => exited /\ calls = <<>>
    /\ exited /\ ~window => failedAt # "none" /\ exitCode = 1

\* The start of cont2 failed, cont1 was stopped, inspected and removed, and
\* the process exited with code 1.
C11_Witness ==
    /\ failedAt = "start2"
    /\ exited /\ exitCode = 1
    /\ Issued(1, "remove")

\* ------------------------------------------------------------------- C12
\* The inspect call of container c returned without an error.
InspectOk(c) ==
    \E i \in 1..Len(calls) :
        calls[i].c = c /\ calls[i].op = "inspect" /\ calls[i].out = "ok"

\* The number of calls op issued for container c.
CountOf(c, op) ==
    Cardinality({i \in 1..Len(calls) : calls[i].c = c /\ calls[i].op = op})

\* C12 as stated: at an exit after the window, a remove call has been issued
\* for every container whose inspect call returned without an error.
C12_Original ==
    exited /\ window =>
        \A c \in Containers : InspectOk(c) => Issued(c, "remove")

\* C12, amended: at an exit after the window, a container whose inspect call
\* returned without an error has had a remove call issued exactly when the
\* program removes containers at all (the first main always, the second
\* only if configRemoveContainer, which is false); a remove call is issued
\* at most once per container, directly after its successful inspect.
C12_RemoveWhenConfigured ==
    /\ exited /\ window =>
          \A c \in Containers :
              InspectOk(c) =>
                  (Issued(c, "remove") <=> (prog = "A" \/ configRemoveContainer))
    /\ \A c \in Containers : Issued(c, "remove") => InspectOk(c)
    /\ \A c \in Containers : CountOf(c, "remove") <= 1
    /\ \A i \in 1..Len(calls) :
          calls[i].op = "remove" =>
              /\ i > 1
              /\ calls[i - 1] = [op |-> "inspect", c |-> calls[i].c, out |-> "ok"]

\* The first main exited after the window: container 1 was inspected and
\* removed, the inspect of container 2 failed and it was not removed.
C12_Witness ==
    /\ prog = "A" /\ exited /\ window
    /\ InspectOk(1) /\ Issued(1, "remove")
    /\ Erred(2, "inspect") /\ ~Issued(2, "remove")

\* ------------------------------------------------------------------- C13
\* The containers for which stopAndCheckContainer returned an error to the
\* verification loop.
Unhealthy == {c \in Containers : Failed(result[c]) /\ result[c] # "none"}

\* The ids printed as "# docker inspect <id>".
PrintedIds == {printed[i] : i \in 1..Len(printed)}

\* C13 as stated: at an exit with code 2 the printed ids are exactly the
\* containers whose check returned an error, one line each, and an exit with
\* code 0 prints none.
C13_Original ==
    /\ exited /\ exitCode = 2 =>
          PrintedIds = Unhealthy /\ Len(printed) = Cardinality(Unhealthy)
    /\ exited /\ exitCode = 0 => printed = <<>>

\* C13, amended: the second main prints, at an exit with code 2, exactly one
\* line per container whose check returned an error, in the order of the
\* checks, and none for a container that passed; the first main prints no
\* such line at any exit, and no line is printed before the verdict or at an
\* exit with code 0 or 1.
C13_PrintedAffected ==
    /\ exited /\ exitCode = 2 /\ prog = "B" =>
          /\ PrintedIds = Unhealthy
          /\ Unhealthy # {}
          /\ Len(printed) = Cardinality(Unhealthy)
          /\ \A i, j \in 1..Len(printed) : i < j => printed[i] < printed[j]
    /\ exited /\ exitCode = 2 /\ prog = "A" => printed = <<>> /\ Unhealthy # {}
    /\ ~(exited /\ exitCode = 2) => printed = <<>>

\* The second main exited with code 2 after container 1 passed and
\* container 2 failed: only container 2 is printed.
C13_Witness ==
    /\ prog = "B" /\ exited /\ exitCode = 2
    /\ result[1] = "nil"
    /\ printed = <<2>>

\* ------------------------------------------------------------------- C14
\* C14 as stated: every lifecycle call returns, at the latest with an error
\* when its timeout expires, so stopAndCheckContainer returns and the process
\* exits: a process that has not exited can always take a step.
C14_Original == ~exited => ENABLED MainNext

\* The last lifecycle call issued.
LastCall == calls[Len(calls)]

\* C14, amended: only the inspect call (and the kill call of the second
\* main) is bounded by a timeout. A process that has not exited can take a
\* step unless it is stuck in a call, and the call it is stuck in is the
\* last one issued and is a stop or remove call of a program that issues
\* them without a timeout; an inspect call always returns, and a remove call
\* can fail to. The second main as configured issues neither and is never
\* stuck.
C14_OnlyInspectBounded ==
    /\ ~exited /\ ~hung => ENABLED MainNext
    /\ hung =>
          /\ ~exited /\ calls # <<>>
          /\ LastCall.out = "hang"
          /\ \/ LastCall.op = "stop" /\ prog = "A"
             \/ LastCall.op = "remove" /\ (prog = "A" \/ configRemoveContainer)
    /\ \A i \in 1..Len(calls) :
          calls[i].out = "hang" =>
              hung /\ i = Len(calls) /\ calls[i].op # "inspect"
    /\ prog = "B" /\ ~configStopContainer /\ ~configRemoveContainer => ~hung
    /\ Running /\ cpc = "remove" => ENABLED (RemoveCall /\ hung')

\* After the window the first main is stuck in the remove call of a
\* container whose inspect call returned in time.
C14_Witness ==
    /\ prog = "A" /\ window /\ hung /\ ~exited
    /\ LastCall.op = "remove"
    /\ InspectOk(LastCall.c)

\* ------------------------------------------------------------------- C15
\* C15 as stated: in logStatsForContainers a forwarding task whose stream
\* closed before the cancellation logs "is no longer streaming" exactly
\* once before it terminates.
C15_Original ==
    variant = "log" /\ cancelled =>
        \A c \in Containers :
            atCancel[c].closed /\ fpc[c] = "done" => streamLog[c] = 1

\* C15, amended: in logStatsForContainers a forwarding task logs "is no
\* longer streaming" at most once, only for a closed stream and only as its
\* last step; a task that has returned before the cancellation has logged
\* it; before the cancellation a task selecting on a closed stream can do
\* nothing but log and return; and the closure puts no value into the shared
\* channel: what a task received is what its stream delivered.
C15_LoggedOnceWhenObserved ==
    variant = "log" =>
        \A c \in Containers :
            /\ streamLog[c] <= 1
            /\ streamLog[c] = 1 => fpc[c] = "done" /\ ChanClosed(c, cur[c])
            /\ fpc[c] = "done" /\ ~cancelled => streamLog[c] = 1
            /\ fpc[c] = "select" /\ ChanClosed(c, cur[c]) /\ ~cancelled =>
                  /\ ENABLED LogFwdClosed(c)
                  /\ ~ENABLED LogFwdRecv(c)
                  /\ ~ENABLED FwdDone(c)
            /\ Len(recvLog[c]) + (IF Offering(c) THEN 1 ELSE 0) = produced[c]

\* Both streams closed before the cancellation, both forwarding tasks have
\* logged it once and returned, and container 1 had delivered a snapshot.
C15_Witness ==
    /\ variant = "log" /\ ~cancelled
    /\ \A c \in Containers : streamLog[c] = 1 /\ fpc[c] = "done"
    /\ Len(SinkOf(1)) = 1

\* ------------------------------------------------------------------- C16
\* A step of the forwarding task of c: a case of its select, the completion
\* of its send on statsChan (the rendezvous with the merge loop) or of its
\* send on subscribeAgain.
FwdStep(c) ==
    \/ FwdDone(c)
    \/ LogFwdRecv(c)
    \/ LogFwdClosed(c)
    \/ StatsFwdRecv(c)
    \/ StatsFwdResubscribe(c)
    \/ StatsFwdToken(c)
    \/ MergeRecv(c)

\* C16: a forwarding task only ever waits on its stream or on the
\* cancellation, so once cancel() was called and the merge loop has
\* returned, every forwarding task has returned or can still take a step.
C16_Original ==
    cancelled /\ mpc = "done" =>
        \A c \in Containers : fpc[c] = "done" \/ ENABLED FwdStep(c)

\* ------------------------------------------------------------------- C17
\* The snapshots of c received from its stream and not yet taken by the
\* merge loop.
Pending(c) == Len(NonNil(recvLog[c])) - Len(SinkOf(c)) - Len(MergeHeld(c))

\* C17: in logStatsForContainers at most one snapshot per container is
\* received from its stream and not yet taken by the merge loop, and it is
\* the one its forwarding task holds; a task holding a value takes no step
\* of its own until the merge loop has taken it; and while the merge loop
\* is in a sink write it takes nothing, so a container whose task holds a
\* value and whose stream offers the next one is stopped altogether.
C17_BackPressure ==
    variant = "log" =>
        \A c \in Containers :
            /\ Pending(c) <= 1
            /\ Pending(c) = Len(FwdHeld(c))
            /\ fpc[c] = "send" =>
                  /\ ~ENABLED LogFwdRecv(c)
                  /\ ~ENABLED LogFwdClosed(c)
                  /\ ~ENABLED FwdDone(c)
            /\ mpc = "write" => ~ENABLED MergeRecv(c)
            /\ mpc = "write" /\ fpc[c] = "send" /\ Offering(c) =>
                  ~ENABLED (SrcOffer(c, cur[c]) \/ SrcEnd(c, cur[c]) \/ FwdStep(c))

\* The merge loop is in the write of a snapshot of container 1 while the
\* forwarding task of container 1 holds the next one and the stream offers
\* a third.
C17_Witness ==
    /\ variant = "log" /\ ~cancelled
    /\ mpc = "write" /\ mval.c = 1
    /\ FwdHeld(1) # <<>>
    /\ Offering(1)

\* ------------------------------------------------------------------- C18
\* The forwarding task of c in statsForContainers has forwarded a snapshot
\* and is left, before any cancellation, selecting with no token in
\* subscribeAgain and every subscription goroutine of c over: its contStats
\* is closed and yields nil for ever, and nothing can put a token back.
Starved(c) ==
    /\ variant = "stats" /\ ~cancelled
    /\ fpc[c] = "select"
    /\ tok[c] = 0
    /\ cur[c] >= 1
    /\ NonNil(recvLog[c]) # <<>>
    /\ \A g \in Gens : sub[c][g] \in {"none", "exit"}

\* C18: in statsForContainers the token a forwarding task puts into
\* subscribeAgain after a forwarded snapshot is taken by its own select, so
\* before the cancellation no task is ever left reading nil from a closed
\* channel with no subscription and no token.
C18_Original == \A c \in Containers : ~Starved(c)

\* ------------------------------------------------------------------- C19
\* The forwarding task of c in statsForContainers waits, before any
\* cancellation, in `subscribeAgain <- true` on a full channel while no
\* subscription goroutine of c can get to its `<-subscribeAgain`: each is
\* over, not started, or blocked in a send nobody receives.
TokenStuck(c) ==
    /\ variant = "stats" /\ ~cancelled
    /\ fpc[c] = "token"
    /\ tok[c] = 1
    /\ \A g \in Gens : sub[c][g] \in {"none", "offer", "exit"}

\* C19 as stated: whatever number of snapshots a subscription delivers, no
\* forwarding task is ever stuck in `subscribeAgain <- true`.
C19_Original == \A c \in Containers : ~TokenStuck(c)

\* ------------------------------------------------------------------- C20
\* A deferred cancel() has not run.
CancelPending == \E i \in 1..Len(deferred) : deferred[i].op = "cancel"

\* C20: when main of main.go exits, on whatever path, a StopContainer call
\* has been issued for every container that was started, and a cancel()
\* that was deferred has been called.
C20_Original ==
    prog = "G" /\ exited =>
        /\ \A c \in started : Issued(c, "stop")
        /\ ~CancelPending

====
